---------------------------- MODULE Spec2Model ----------------------------
(***************************************************************************)
(* Model of src/database.py: DatabaseManager, the data-access layer of the *)
(* purchase-request system.  Callers (threads / application instances)     *)
(* invoke the public operations concurrently; every SQL statement is one   *)
(* step.  The store is PostgreSQL at READ COMMITTED: a statement sees the  *)
(* committed tables, uncommitted writes of a connection are invisible to   *)
(* the others, and UPDATE / DELETE of a row waits for the row lock.        *)
(***************************************************************************)
EXTENDS Integers, Sequences, FiniteSets, TLC

\* ------------------------------------------------------------------ bounds
MaxId == 2               \* ids the serial column hands out in a run
MaxItems == 2            \* longest items_data list a caller passes

\* ------------------------------------------------------- program constants
maxconn == 5             \* SimpleConnectionPool(1, 5, ...)

Callers == {1, 2}        \* the concurrent callers
Conns == 1..maxconn
Ids == 1..MaxId
Numbers == {1001, 1002}  \* request_number values callers use
NoConn == 0
NoId == 0

valid_statuses == {"pending", "approved", "rejected", "completed"}
\* status values a caller may pass; "archived" is outside valid_statuses,
\* "absent" stands for a request_data dict without the 'status' key
SaveStatusInputs == {"absent", "archived"}
UpdateStatusInputs == {"approved", "archived"}

VARIABLES
    is_connected,        \* self.is_connected
    connection_pool,     \* TRUE: self.connection_pool is a pool, FALSE: None
    used,                \* connections checked out of the pool
    txn,                 \* per connection: transaction status, uncommitted writes
    purchase_requests,   \* committed table: id -> row
    request_items,       \* committed table: set of item rows
    id_seq,              \* next value of purchase_requests.id
    deleted_ids,         \* history: ids of the rows delete_request has deleted
    pc, op, arg,         \* per caller: position, operation, arguments
    conn,                \* per caller: the connection it holds
    loc,                 \* per caller: local variables (request_id, stats)
    ret,                 \* per caller: what the operation returned / raised
    obs                  \* per caller: whether the operation asked the pool for a connection

vars == <<is_connected, connection_pool, used, txn, purchase_requests,
          request_items, id_seq, deleted_ids, pc, op, arg, conn, loc, ret, obs>>
dbvars == <<purchase_requests, request_items, id_seq, deleted_ids>>
poolvars == <<is_connected, connection_pool>>

\* ----------------------------------------------------------- value shapes
NoArg == [request_data |-> [complete |-> TRUE, request_number |-> 0, status |-> "absent"],
          items_data |-> <<>>, request_id |-> NoId, new_status |-> "",
          request_number |-> 0]
NoStats == [total |-> 0, pending |-> 0, approved |-> 0, rejected |-> 0, completed |-> 0]
NoLoc == [request_id |-> NoId, k |-> 1, stats |-> NoStats]
NoRet == [ok |-> FALSE, id |-> NoId, msg |-> "", raised |-> ""]
NoObs == [getconn |-> FALSE]
IdleTxn == [status |-> "idle", writes |-> <<>>]

Result(ok, id, msg) == [ok |-> ok, id |-> id, msg |-> msg, raised |-> ""]
Raised(exc) == [ok |-> FALSE, id |-> NoId, msg |-> "", raised |-> exc]

\* an item dict: 'notes' (a required key) present or not
Item(k, good) == [row_number |-> k, complete |-> good]
\* items_data lists: n well-formed items, or items of which the last lacks a key
GoodItems(n) == [k \in 1..n |-> Item(k, TRUE)]
BadItems(n) == [k \in 1..n |-> Item(k, k < n)]
ItemLists == {GoodItems(n) : n \in 0..MaxItems} \cup {BadItems(MaxItems)}
\* request_data dicts: complete ones with request_number in NN and status in
\* SS, and one that lacks a required key
RequestDicts(NN, SS) ==
    [complete : {TRUE}, request_number : NN, status : SS]
    \cup {[complete |-> FALSE, request_number |-> 1001, status |-> "absent"]}

\* --------------------------------------------------------------- the store
\* One uncommitted write of a transaction.
Write(k, id, n, s) == [k |-> k, id |-> id, n |-> n, s |-> s, m |-> 0]
\* INSERT INTO purchase_requests of request_number n with status s; m records
\* how many items the request was saved with (history, not a column)
InsertRequest(id, n, s, m) == [k |-> "insert_request", id |-> id, n |-> n, s |-> s, m |-> m]

ApplyRequests(reqs, w) ==
    CASE w.k = "insert_request" ->
            [i \in DOMAIN reqs \cup {w.id} |->
                IF i = w.id
                THEN [request_number |-> w.n, status |-> w.s, deleted_at |-> "NULL",
                      saved_items |-> w.m]
                ELSE reqs[i]]
      [] w.k = "delete" -> [i \in DOMAIN reqs \ {w.id} |-> reqs[i]]
      [] w.k = "status" /\ w.id \in DOMAIN reqs ->
            [reqs EXCEPT ![w.id].status = w.s]
      [] w.k = "restore" /\ w.id \in DOMAIN reqs ->
            [reqs EXCEPT ![w.id].deleted_at = "NULL"]
      [] w.k = "soft_delete" /\ w.id \in DOMAIN reqs ->
            [reqs EXCEPT ![w.id].deleted_at = "ts"]
      [] OTHER -> reqs

\* ApplyItems with a foreign key that lacks ON DELETE CASCADE and is not
\* enforced: deleting a request leaves its items
ApplyItemsNoCascade(items, w) ==
    CASE w.k = "insert_item" -> items \cup {[request_id |-> w.id, row_number |-> w.n]}
      [] OTHER -> items

\* request_items.request_id is a foreign key with ON DELETE CASCADE
ApplyItems(items, w) ==
    CASE w.k = "insert_item" -> items \cup {[request_id |-> w.id, row_number |-> w.n]}
      [] w.k = "delete" -> {it \in items : it.request_id # w.id}
      [] OTHER -> items

RECURSIVE CommitRequests(_, _)
CommitRequests(reqs, ws) ==
    IF ws = <<>> THEN reqs ELSE CommitRequests(ApplyRequests(reqs, Head(ws)), Tail(ws))

RECURSIVE CommitItems(_, _)
CommitItems(items, ws) ==
    IF ws = <<>> THEN items ELSE CommitItems(ApplyItems(items, Head(ws)), Tail(ws))

\* another connection holds the row lock of purchase_requests row id
Locked(id, c) ==
    \E c2 \in Conns \ {c} : \E i \in DOMAIN txn[c2].writes :
        /\ txn[c2].writes[i].k \in {"delete", "status", "restore", "soft_delete"}
        /\ txn[c2].writes[i].id = id

\* cursor.execute of writes ws on connection c: they join its transaction
Execute(t, c, ws) ==
    [t EXCEPT ![c] = [status |-> "intrans", writes |-> t[c].writes \o ws]]
\* a statement on c failed with psycopg2.Error: the transaction is aborted
Failed(t, c) == [t EXCEPT ![c].status = "inerror"]
\* connection.rollback(): the transaction's writes are dropped
rollback(t, c) == [t EXCEPT ![c] = IdleTxn]

\* connection.commit(): the transaction's writes reach the tables together
commit(c) ==
    /\ purchase_requests' = CommitRequests(purchase_requests, txn[c].writes)
    /\ request_items' = CommitItems(request_items, txn[c].writes)
    /\ txn' = [txn EXCEPT ![c] = IdleTxn]

\* ----------------------------------------------------------------- the pool
Min(S) == CHOOSE x \in S : \A y \in S : x <= y

\* pool.getconn(): a connection that is not checked out, or psycopg2.Error
\* (NoConn): the pool is exhausted or a new connection cannot be opened
getconn ==
    (IF Cardinality(used) < maxconn THEN {Min(Conns \ used)} ELSE {}) \cup {NoConn}

\* get_connection(): None without a pool, None when getconn raises Error
get_connection == IF connection_pool THEN getconn ELSE {NoConn}

\* pool.putconn(c): a connection that is not idle is rolled back (or closed)
\* before it is kept, so nothing uncommitted survives the hand-back
putconn(c) ==
    /\ used' = used \ {c}
    /\ txn' = [txn EXCEPT ![c] = IdleTxn]

\* return_connection(connection)
return_connection(c) ==
    IF connection_pool /\ c # NoConn THEN putconn(c) ELSE UNCHANGED <<used, txn>>

\* ------------------------------------------------- steps common to callers
\* a caller enters operation o with arguments a
Begin(p, o, a) ==
    /\ pc[p] = "idle"
    /\ op' = [op EXCEPT ![p] = o]
    /\ arg' = [arg EXCEPT ![p] = a]
    /\ loc' = [loc EXCEPT ![p] = NoLoc]

\* the operation returns r without holding a connection
Return(p, r, o) ==
    /\ pc' = [pc EXCEPT ![p] = "return"]
    /\ ret' = [ret EXCEPT ![p] = r]
    /\ obs' = [obs EXCEPT ![p] = o]
    /\ UNCHANGED <<conn, used, txn>>

\* the operation got connection c and goes on at position next
Acquired(p, c, next, o) ==
    /\ conn' = [conn EXCEPT ![p] = c]
    /\ used' = used \cup {c}
    /\ pc' = [pc EXCEPT ![p] = next]
    /\ ret' = [ret EXCEPT ![p] = NoRet]
    /\ obs' = [obs EXCEPT ![p] = o]
    /\ UNCHANGED txn

\* the try block is left with result r (or a propagating exception): the
\* finally clause runs next
Leave(p, r) ==
    /\ pc' = [pc EXCEPT ![p] = "finally"]
    /\ ret' = [ret EXCEPT ![p] = r]

\* `if not self.is_connected: return ...`, then `connection = self.get_connection()`,
\* `if not connection: return ...`
Guarded(p, next, notconnected, noconnection) ==
    IF ~is_connected
    THEN Return(p, notconnected, NoObs)
    ELSE \E c \in get_connection :
            IF c = NoConn
            THEN Return(p, noconnection, [NoObs EXCEPT !.getconn = connection_pool])
            ELSE Acquired(p, c, next, [NoObs EXCEPT !.getconn = TRUE])

\* the caller has the result (or the exception) and is free for its next call
Forget(p) ==
    /\ pc' = [pc EXCEPT ![p] = "idle"]
    /\ op' = [op EXCEPT ![p] = "none"]
    /\ arg' = [arg EXCEPT ![p] = NoArg]
    /\ loc' = [loc EXCEPT ![p] = NoLoc]
    /\ ret' = [ret EXCEPT ![p] = NoRet]
    /\ obs' = [obs EXCEPT ![p] = NoObs]

\* finally: self.return_connection(connection); the result reaches the caller
Finally(p) ==
    /\ pc[p] = "finally"
    /\ return_connection(conn[p])
    /\ conn' = [conn EXCEPT ![p] = NoConn]
    /\ Forget(p)
    /\ UNCHANGED <<poolvars, dbvars>>

\* a return outside the try block: the result reaches the caller
Exit(p) ==
    /\ pc[p] = "return"
    /\ Forget(p)
    /\ UNCHANGED <<poolvars, dbvars, used, txn, conn>>

\* ------------------------------------------------------------ save_request
StoredStatus(rd) == IF rd.status = "absent" THEN "pending" ELSE rd.status

\* save_request(request_data, items_data), the arguments drawn from RD and IL
save_request_call(p, RD, IL) ==
    /\ \E rd \in RD, items \in IL :
        /\ rd.complete \/ items = <<>>
        /\ Begin(p, "save_request",
                 [NoArg EXCEPT !.request_data = rd, !.items_data = items])
    /\ Guarded(p, "save_insert", Result(FALSE, NoId, "not_connected"),
               Result(FALSE, NoId, "no_connection"))
    /\ UNCHANGED <<poolvars, dbvars>>

\* save_request_insert with the transaction left in autocommit mode: the
\* request row is committed by the INSERT itself
save_request_insert_autocommit(p) ==
    LET c == conn[p]
        rd == arg[p].request_data
        w == InsertRequest(id_seq, rd.request_number, StoredStatus(rd),
                           Len(arg[p].items_data))
    IN  /\ pc[p] = "save_insert"
        /\ \/ /\ ~rd.complete
              /\ Leave(p, Raised("KeyError"))
              /\ UNCHANGED <<txn, id_seq, loc, purchase_requests>>
           \/ /\ rd.complete
              /\ id_seq <= MaxId
              /\ purchase_requests' = ApplyRequests(purchase_requests, w)
              /\ txn' = Execute(txn, c, <<>>)
              /\ id_seq' = id_seq + 1
              /\ loc' = [loc EXCEPT ![p].request_id = id_seq]
              /\ pc' = [pc EXCEPT ![p] =
                            IF arg[p].items_data # <<>> THEN "save_items" ELSE "save_commit"]
              /\ UNCHANGED ret
           \/ /\ rd.complete
              /\ txn' = rollback(Failed(txn, c), c)
              /\ Leave(p, Result(FALSE, NoId, "db_error"))
              /\ UNCHANGED <<id_seq, loc, purchase_requests>>
        /\ UNCHANGED <<poolvars, used, request_items, deleted_ids, op, arg, conn, obs>>

\* cursor.execute(insert_request_query, (request_data[...], ...)); fetchone()[0]
save_request_insert(p) ==
    LET c == conn[p]
        rd == arg[p].request_data
    IN  /\ pc[p] = "save_insert"
        /\ \/ \* a required key is missing: KeyError, which `except Error` lets through
              /\ ~rd.complete
              /\ Leave(p, Raised("KeyError"))
              /\ UNCHANGED <<txn, id_seq, loc>>
           \/ \* the row is inserted in the open transaction, RETURNING id
              /\ rd.complete
              /\ id_seq <= MaxId
              /\ txn' = Execute(txn, c, <<InsertRequest(id_seq, rd.request_number,
                                   StoredStatus(rd), Len(arg[p].items_data))>>)
              /\ id_seq' = id_seq + 1
              /\ loc' = [loc EXCEPT ![p].request_id = id_seq]
              /\ pc' = [pc EXCEPT ![p] =
                            IF arg[p].items_data # <<>> THEN "save_items" ELSE "save_commit"]
              /\ UNCHANGED ret
           \/ \* psycopg2.Error: except Error -> connection.rollback()
              /\ rd.complete
              /\ txn' = rollback(Failed(txn, c), c)
              /\ Leave(p, Result(FALSE, NoId, "db_error"))
              /\ UNCHANGED <<id_seq, loc>>
        /\ UNCHANGED <<poolvars, used, purchase_requests, request_items, deleted_ids,
                       op, arg, conn, obs>>

ItemWrites(rid, items) ==
    [k \in 1..Len(items) |-> Write("insert_item", rid, items[k].row_number, "")]

\* items_to_insert = [...]; cursor.executemany(insert_items_query, items_to_insert)
save_request_items(p) ==
    LET c == conn[p]
        items == arg[p].items_data
        good == \A k \in 1..Len(items) : items[k].complete
    IN  /\ pc[p] = "save_items"
        /\ \/ \* an item lacks a key: KeyError while the list is built
              /\ ~good
              /\ Leave(p, Raised("KeyError"))
              /\ UNCHANGED txn
           \/ \* every item row is inserted
              /\ good
              /\ txn' = Execute(txn, c, ItemWrites(loc[p].request_id, items))
              /\ pc' = [pc EXCEPT ![p] = "save_commit"]
              /\ UNCHANGED ret
           \/ \* the j+1-th INSERT fails: psycopg2.Error -> connection.rollback()
              /\ good
              /\ \E j \in 0..(Len(items) - 1) :
                    txn' = rollback(Failed(Execute(txn, c,
                              SubSeq(ItemWrites(loc[p].request_id, items), 1, j)), c), c)
              /\ Leave(p, Result(FALSE, NoId, "db_error"))
        /\ UNCHANGED <<poolvars, used, dbvars, op, arg, conn, loc, obs>>

\* connection.commit(); return True, request_id, None
save_request_commit(p) ==
    LET c == conn[p]
    IN  /\ pc[p] = "save_commit"
        /\ \/ /\ commit(c)
              /\ Leave(p, Result(TRUE, loc[p].request_id, "None"))
           \/ \* psycopg2.Error: except Error -> connection.rollback()
              /\ txn' = rollback(Failed(txn, c), c)
              /\ Leave(p, Result(FALSE, NoId, "db_error"))
              /\ UNCHANGED <<purchase_requests, request_items>>
        /\ UNCHANGED <<poolvars, used, id_seq, deleted_ids, op, arg, conn, loc, obs>>

\* ---------------------------------------------------------- delete_request
delete_request_call(p) ==
    /\ \E id \in Ids : Begin(p, "delete_request", [NoArg EXCEPT !.request_id = id])
    /\ Guarded(p, "delete_execute", Result(FALSE, NoId, "not_connected"),
               Result(FALSE, NoId, "no_connection"))
    /\ UNCHANGED <<poolvars, dbvars>>

\* delete_request_execute as a soft delete: UPDATE ... SET deleted_at = now()
delete_request_execute_soft(p) ==
    LET c == conn[p]
        id == arg[p].request_id
    IN  /\ pc[p] = "delete_execute"
        /\ \/ /\ id \in DOMAIN purchase_requests => ~Locked(id, c)
              /\ txn' = Execute(txn, c, IF id \in DOMAIN purchase_requests
                                        THEN <<Write("soft_delete", id, 0, "")>> ELSE <<>>)
              /\ pc' = [pc EXCEPT ![p] = "delete_commit"]
              /\ UNCHANGED ret
           \/ /\ txn' = rollback(Failed(txn, c), c)
              /\ Leave(p, Result(FALSE, NoId, "db_error"))
        /\ UNCHANGED <<poolvars, used, dbvars, op, arg, conn, loc, obs>>

\* cursor.execute("DELETE FROM purchase_requests WHERE id = %s")
delete_request_execute(p) ==
    LET c == conn[p]
        id == arg[p].request_id
    IN  /\ pc[p] = "delete_execute"
        /\ \/ \* the row (if there is one) is deleted in the open transaction
              /\ id \in DOMAIN purchase_requests => ~Locked(id, c)
              /\ txn' = Execute(txn, c, IF id \in DOMAIN purchase_requests
                                        THEN <<Write("delete", id, 0, "")>> ELSE <<>>)
              /\ pc' = [pc EXCEPT ![p] = "delete_commit"]
              /\ UNCHANGED ret
           \/ \* psycopg2.Error: except Error -> connection.rollback()
              /\ txn' = rollback(Failed(txn, c), c)
              /\ Leave(p, Result(FALSE, NoId, "db_error"))
        /\ UNCHANGED <<poolvars, used, dbvars, op, arg, conn, loc, obs>>

\* connection.commit(); return True, None
delete_request_commit(p) ==
    LET c == conn[p]
    IN  /\ pc[p] = "delete_commit"
        /\ \/ /\ commit(c)
              /\ deleted_ids' = deleted_ids \cup
                    {txn[c].writes[i].id : i \in DOMAIN txn[c].writes}
              /\ Leave(p, Result(TRUE, NoId, "None"))
           \/ /\ txn' = rollback(Failed(txn, c), c)
              /\ Leave(p, Result(FALSE, NoId, "db_error"))
              /\ UNCHANGED <<purchase_requests, request_items, deleted_ids>>
        /\ UNCHANGED <<poolvars, used, id_seq, op, arg, conn, loc, obs>>

\* --------------------------------------------------- update_request_status
\* validation; then conn = self.connection_pool.getconn() inside try, with
\* `except Exception` around it: no is_connected test
\* update_request_status_call without the valid_statuses test
update_request_status_call_unvalidated(p, SS) ==
    /\ \E id \in Ids, s \in SS :
        Begin(p, "update_request_status",
              [NoArg EXCEPT !.request_id = id, !.new_status = s])
    /\ IF ~connection_pool
       THEN Return(p, Result(FALSE, NoId, "status_error"), [NoObs EXCEPT !.getconn = TRUE])
       ELSE \E c \in getconn :
              IF c = NoConn
              THEN Return(p, Result(FALSE, NoId, "status_error"),
                          [NoObs EXCEPT !.getconn = TRUE])
              ELSE Acquired(p, c, "update_execute", [NoObs EXCEPT !.getconn = TRUE])
    /\ UNCHANGED <<poolvars, dbvars>>

update_request_status_call(p, SS) ==
    /\ \E id \in Ids, s \in SS :
        Begin(p, "update_request_status",
              [NoArg EXCEPT !.request_id = id, !.new_status = s])
    /\ IF arg'[p].new_status \notin valid_statuses
       THEN Return(p, Result(FALSE, NoId, "invalid_status"), NoObs)
       ELSE IF ~connection_pool
       THEN \* None.getconn: AttributeError, caught by `except Exception`
            Return(p, Result(FALSE, NoId, "status_error"), [NoObs EXCEPT !.getconn = TRUE])
       ELSE \E c \in getconn :
              IF c = NoConn
              THEN Return(p, Result(FALSE, NoId, "status_error"),
                          [NoObs EXCEPT !.getconn = TRUE])
              ELSE Acquired(p, c, "update_execute", [NoObs EXCEPT !.getconn = TRUE])
    /\ UNCHANGED <<poolvars, dbvars>>

\* UPDATE purchase_requests SET status = %s WHERE id = %s RETURNING request_number
update_request_status_execute(p) ==
    LET c == conn[p]
        id == arg[p].request_id
    IN  /\ pc[p] = "update_execute"
        /\ \/ \* no row: `if not result: return False, ...` (no commit, no rollback)
              /\ id \notin DOMAIN purchase_requests
              /\ txn' = Execute(txn, c, <<>>)
              /\ Leave(p, Result(FALSE, NoId, "not_found"))
           \/ /\ id \in DOMAIN purchase_requests
              /\ ~Locked(id, c)
              /\ txn' = Execute(txn, c, <<Write("status", id, 0, arg[p].new_status)>>)
              /\ pc' = [pc EXCEPT ![p] = "update_commit"]
              /\ UNCHANGED ret
           \/ \* except Exception: conn.rollback()
              /\ txn' = rollback(Failed(txn, c), c)
              /\ Leave(p, Result(FALSE, NoId, "status_error"))
        /\ UNCHANGED <<poolvars, used, dbvars, op, arg, conn, loc, obs>>

\* conn.commit(); return True, None
update_request_status_commit(p) ==
    LET c == conn[p]
    IN  /\ pc[p] = "update_commit"
        /\ \/ /\ commit(c)
              /\ Leave(p, Result(TRUE, NoId, "None"))
           \/ /\ txn' = rollback(Failed(txn, c), c)
              /\ Leave(p, Result(FALSE, NoId, "status_error"))
              /\ UNCHANGED <<purchase_requests, request_items>>
        /\ UNCHANGED <<poolvars, used, id_seq, deleted_ids, op, arg, conn, loc, obs>>

\* --------------------------------------------------------- restore_request
restore_request_call(p) ==
    /\ \E id \in Ids : Begin(p, "restore_request", [NoArg EXCEPT !.request_id = id])
    /\ Guarded(p, "restore_execute", Result(FALSE, NoId, "not_connected"),
               Result(FALSE, NoId, "no_connection"))
    /\ UNCHANGED <<poolvars, dbvars>>

\* RestoreMatches without `AND deleted_at IS NOT NULL`
RestoreMatchesAnyRow(id) == id \in DOMAIN purchase_requests

\* the rows `WHERE id = %s AND deleted_at IS NOT NULL` selects
RestoreMatches(id) ==
    /\ id \in DOMAIN purchase_requests
    /\ purchase_requests[id].deleted_at # "NULL"

\* UPDATE purchase_requests SET deleted_at = NULL
\* WHERE id = %s AND deleted_at IS NOT NULL RETURNING request_number
restore_request_execute(p) ==
    LET c == conn[p]
        id == arg[p].request_id
    IN  /\ pc[p] = "restore_execute"
        /\ \/ \* no row: return False, ... (no commit, no rollback)
              /\ ~RestoreMatches(id)
              /\ txn' = Execute(txn, c, <<>>)
              /\ Leave(p, Result(FALSE, NoId, "not_found"))
           \/ /\ RestoreMatches(id)
              /\ ~Locked(id, c)
              /\ txn' = Execute(txn, c, <<Write("restore", id, 0, "")>>)
              /\ pc' = [pc EXCEPT ![p] = "restore_commit"]
              /\ UNCHANGED ret
           \/ \* psycopg2.Error: except Error -> connection.rollback()
              /\ txn' = rollback(Failed(txn, c), c)
              /\ Leave(p, Result(FALSE, NoId, "db_error"))
        /\ UNCHANGED <<poolvars, used, dbvars, op, arg, conn, loc, obs>>

\* connection.commit(); return True, None
restore_request_commit(p) ==
    LET c == conn[p]
    IN  /\ pc[p] = "restore_commit"
        /\ \/ /\ commit(c)
              /\ Leave(p, Result(TRUE, NoId, "None"))
           \/ /\ txn' = rollback(Failed(txn, c), c)
              /\ Leave(p, Result(FALSE, NoId, "db_error"))
              /\ UNCHANGED <<purchase_requests, request_items>>
        /\ UNCHANGED <<poolvars, used, id_seq, deleted_ids, op, arg, conn, loc, obs>>

\* ------------------------------------------ check_duplicate_request_number
check_duplicate_request_number_call(p, NN) ==
    /\ \E n \in NN :
        Begin(p, "check_duplicate_request_number", [NoArg EXCEPT !.request_number = n])
    /\ Guarded(p, "check_query", Result(FALSE, NoId, "None"), Result(FALSE, NoId, "None"))
    /\ UNCHANGED <<poolvars, dbvars>>

\* the rows `WHERE request_number = %s AND deleted_at IS NULL` selects
ActiveWithNumber(n) ==
    {i \in DOMAIN purchase_requests :
        /\ purchase_requests[i].request_number = n
        /\ purchase_requests[i].deleted_at = "NULL"}

\* SELECT ...; result = cursor.fetchone(); (True, dict(result)) or (False, None).
\* faulty: whether the statement may fail with psycopg2.Error
check_duplicate_request_number_query(p, faulty) ==
    LET c == conn[p]
        rows == ActiveWithNumber(arg[p].request_number)
    IN  /\ pc[p] = "check_query"
        /\ \/ /\ rows = {}
              /\ Leave(p, Result(FALSE, NoId, "None"))
           \/ \E i \in rows : Leave(p, Result(TRUE, i, "row"))
           \/ \* psycopg2.Error: return False, None
              /\ faulty
              /\ Leave(p, Result(FALSE, NoId, "None"))
        /\ txn' = Execute(txn, c, <<>>)
        /\ UNCHANGED <<poolvars, used, dbvars, op, arg, conn, loc, obs>>


\* ---------------------------------------------------------- get_statistics
get_statistics_call(p) ==
    /\ Begin(p, "get_statistics", NoArg)
    /\ Guarded(p, "stats_query", Result(TRUE, NoId, "stats"), Result(TRUE, NoId, "stats"))
    /\ UNCHANGED <<poolvars, dbvars>>

\* the five COUNT(*) queries, in the order the code runs them
StatKeys == <<"total", "pending", "approved", "rejected", "completed">>

\* SELECT COUNT(*) FROM purchase_requests WHERE [status = key AND] deleted_at IS NULL
Count(key) ==
    Cardinality({i \in DOMAIN purchase_requests :
        /\ purchase_requests[i].deleted_at = "NULL"
        /\ key = "total" \/ purchase_requests[i].status = key})

\* one cursor.execute(...); stats[key] = cursor.fetchone()[...]
get_statistics_query(p) ==
    LET c == conn[p]
        k == loc[p].k
    IN  /\ pc[p] = "stats_query"
        /\ \/ /\ loc' = [loc EXCEPT ![p].stats[StatKeys[k]] = Count(StatKeys[k]),
                                    ![p].k = IF k < Len(StatKeys) THEN k + 1 ELSE k]
              /\ IF k < Len(StatKeys)
                 THEN UNCHANGED <<pc, ret>>
                 ELSE Leave(p, Result(TRUE, NoId, "stats"))
           \/ \* psycopg2.Error: the zeroed structure is returned
              /\ loc' = [loc EXCEPT ![p].stats = NoStats]
              /\ Leave(p, Result(TRUE, NoId, "stats"))
        /\ txn' = Execute(txn, c, <<>>)
        /\ UNCHANGED <<poolvars, used, dbvars, op, arg, conn, obs>>

\* --------------------------------------------------------- test_connection
\* connection = self.get_connection(): no is_connected test
test_connection_call(p) ==
    /\ Begin(p, "test_connection", NoArg)
    /\ \E c \in get_connection :
          IF c = NoConn
          THEN Return(p, Result(FALSE, NoId, "False"), [NoObs EXCEPT !.getconn = connection_pool])
          ELSE Acquired(p, c, "test_query", [NoObs EXCEPT !.getconn = TRUE])
    /\ UNCHANGED <<poolvars, dbvars>>

\* cursor.execute("SELECT version();")
test_connection_query(p) ==
    /\ pc[p] = "test_query"
    /\ \/ Leave(p, Result(TRUE, NoId, "True"))
       \/ Leave(p, Result(FALSE, NoId, "False"))
    /\ txn' = Execute(txn, conn[p], <<>>)
    /\ UNCHANGED <<poolvars, used, dbvars, op, arg, conn, loc, obs>>

\* --------------------------------------------------------- search_in_items
\* is_connected test, then conn = self.connection_pool.getconn() inside try
search_in_items_call(p) ==
    /\ Begin(p, "search_in_items", NoArg)
    /\ IF ~is_connected
       THEN Return(p, Result(FALSE, NoId, "not_connected"), NoObs)
       ELSE \E c \in getconn :
              IF c = NoConn
              THEN Return(p, Result(FALSE, NoId, "search_error"),
                          [NoObs EXCEPT !.getconn = TRUE])
              ELSE Acquired(p, c, "search_query", [NoObs EXCEPT !.getconn = TRUE])
    /\ UNCHANGED <<poolvars, dbvars>>

\* cur.execute(query, ...); results = cur.fetchall()
search_in_items_query(p) ==
    /\ pc[p] = "search_query"
    /\ \/ pc' = [pc EXCEPT ![p] = "search_return"]
       \/ pc' = [pc EXCEPT ![p] = "search_except"]
    /\ txn' = Execute(txn, conn[p], <<>>)
    /\ UNCHANGED <<poolvars, used, dbvars, op, arg, conn, loc, ret, obs>>

\* search_in_items_except without the putconn of the except clause
search_in_items_except_leak(p) ==
    /\ pc[p] = "search_except"
    /\ pc' = [pc EXCEPT ![p] = "return"]
    /\ conn' = [conn EXCEPT ![p] = NoConn]
    /\ ret' = [ret EXCEPT ![p] = Result(FALSE, NoId, "search_error")]
    /\ UNCHANGED <<poolvars, dbvars, used, txn, op, arg, loc, obs>>

\* cur.close(); self.connection_pool.putconn(conn); return formatted_results, None
search_in_items_return(p) ==
    /\ pc[p] = "search_return"
    /\ putconn(conn[p])
    /\ pc' = [pc EXCEPT ![p] = "return"]
    /\ conn' = [conn EXCEPT ![p] = NoConn]
    /\ ret' = [ret EXCEPT ![p] = Result(TRUE, NoId, "rows")]
    /\ UNCHANGED <<poolvars, dbvars, op, arg, loc, obs>>

\* except Exception: if conn: self.connection_pool.putconn(conn); return None, str(e)
search_in_items_except(p) ==
    /\ pc[p] = "search_except"
    /\ IF conn[p] # NoConn THEN putconn(conn[p]) ELSE UNCHANGED <<used, txn>>
    /\ pc' = [pc EXCEPT ![p] = "return"]
    /\ conn' = [conn EXCEPT ![p] = NoConn]
    /\ ret' = [ret EXCEPT ![p] = Result(FALSE, NoId, "search_error")]
    /\ UNCHANGED <<poolvars, dbvars, op, arg, loc, obs>>

\* ------------------------------------------------------- the point lookups
\* get_max_request_number, get_request_by_id, get_request_by_number,
\* get_request_items, search_requests: is_connected test, get_connection,
\* one SELECT (get_request_by_id: a second one for the items), finally
ReadOps == {"get_max_request_number", "get_request_by_id", "get_request_by_number",
            "get_request_items", "search_requests"}

read_call(p) ==
    /\ \E o \in ReadOps, id \in Ids : Begin(p, o, [NoArg EXCEPT !.request_id = id])
    /\ Guarded(p, "read_query", Result(FALSE, NoId, "empty"), Result(FALSE, NoId, "empty"))
    /\ UNCHANGED <<poolvars, dbvars>>

\* what the SELECT of operation o finds for request id
Found(o, id) ==
    CASE o = "get_max_request_number" -> DOMAIN purchase_requests # {}
      [] o = "get_request_items" -> \E it \in request_items : it.request_id = id
      [] o = "search_requests" ->
            \E i \in DOMAIN purchase_requests : purchase_requests[i].deleted_at = "NULL"
      [] OTHER -> id \in DOMAIN purchase_requests

read_query(p) ==
    LET found == Found(op[p], arg[p].request_id)
    IN  /\ pc[p] \in {"read_query", "read_items"}
        /\ \/ /\ pc[p] = "read_query" /\ op[p] = "get_request_by_id" /\ found
              /\ pc' = [pc EXCEPT ![p] = "read_items"]
              /\ UNCHANGED ret
           \/ /\ ~(pc[p] = "read_query" /\ op[p] = "get_request_by_id" /\ found)
              /\ Leave(p, IF found \/ pc[p] = "read_items"
                          THEN Result(TRUE, NoId, "rows")
                          ELSE Result(FALSE, NoId, "empty"))
           \/ \* psycopg2.Error: None / []
              Leave(p, Result(FALSE, NoId, "empty"))
        /\ txn' = Execute(txn, conn[p], <<>>)
        /\ UNCHANGED <<poolvars, used, dbvars, op, arg, conn, loc, obs>>

\* ------------------------------------------------------------- soft delete
\* The soft delete the data model describes: deleted_at of an active row is set.
SoftDelete(id) ==
    /\ id \in DOMAIN purchase_requests
    /\ purchase_requests[id].deleted_at = "NULL"
    /\ ~Locked(id, NoConn)
    /\ purchase_requests' = [purchase_requests EXCEPT ![id].deleted_at = "ts"]
    /\ UNCHANGED <<poolvars, used, txn, request_items, id_seq, deleted_ids,
                   pc, op, arg, conn, loc, ret, obs>>

\* ------------------------------------------------------------ construction
\* __init__ / _initialize_pool: the pool is created and is_connected set, or
\* psycopg2.Error leaves connection_pool None and is_connected False
Init ==
    /\ \/ is_connected = TRUE /\ connection_pool = TRUE
       \/ is_connected = FALSE /\ connection_pool = FALSE
    /\ used = {}
    /\ txn = [c \in Conns |-> IdleTxn]
    /\ purchase_requests = << >>
    /\ request_items = {}
    /\ id_seq = 1
    /\ deleted_ids = {}
    /\ pc = [p \in Callers |-> "idle"]
    /\ op = [p \in Callers |-> "none"]
    /\ arg = [p \in Callers |-> NoArg]
    /\ conn = [p \in Callers |-> NoConn]
    /\ loc = [p \in Callers |-> NoLoc]
    /\ ret = [p \in Callers |-> NoRet]
    /\ obs = [p \in Callers |-> NoObs]

\* ------------------------------------------------------- the specification
Next ==
    \/ \E p \in Callers :
        \/ save_request_call(p, RequestDicts(Numbers, SaveStatusInputs), ItemLists)
        \/ save_request_insert(p)
        \/ save_request_items(p)
        \/ save_request_commit(p)
        \/ delete_request_call(p)
        \/ delete_request_execute(p)
        \/ delete_request_commit(p)
        \/ update_request_status_call(p, UpdateStatusInputs)
        \/ update_request_status_execute(p)
        \/ update_request_status_commit(p)
        \/ restore_request_call(p)
        \/ restore_request_execute(p)
        \/ restore_request_commit(p)
        \/ check_duplicate_request_number_call(p, Numbers)
        \/ check_duplicate_request_number_query(p, TRUE)
        \/ get_statistics_call(p)
        \/ get_statistics_query(p)
        \/ test_connection_call(p)
        \/ test_connection_query(p)
        \/ search_in_items_call(p)
        \/ search_in_items_query(p)
        \/ search_in_items_return(p)
        \/ search_in_items_except(p)
        \/ read_call(p)
        \/ read_query(p)
        \/ Finally(p)
        \/ Exit(p)
    \/ \E id \in Ids : SoftDelete(id)

Spec == Init /\ [][Next]_vars

\* ---------------------------------------------- restricted environments
\* The same operations, the callers restricted to some of them and to some
\* of the arguments: every behaviour of these is a behaviour of Spec.

\* save_request with every shape of request_data / items_data, and delete_request
NextSave ==
    \E p \in Callers :
        \/ save_request_call(p, RequestDicts({1001}, {"absent"}), ItemLists)
        \/ save_request_insert(p)
        \/ save_request_items(p)
        \/ save_request_commit(p)
        \/ delete_request_call(p)
        \/ delete_request_execute(p)
        \/ delete_request_commit(p)
        \/ Finally(p)
        \/ Exit(p)

SpecSave == Init /\ [][NextSave]_vars

\* the operations that decide which rows are active, on requests without items
NextUnique ==
    \/ \E p \in Callers :
        \/ save_request_call(p, RequestDicts(Numbers, {"absent"}), {<<>>})
        \/ save_request_insert(p)
        \/ save_request_commit(p)
        \/ delete_request_call(p)
        \/ delete_request_execute(p)
        \/ delete_request_commit(p)
        \/ restore_request_call(p)
        \/ restore_request_execute(p)
        \/ restore_request_commit(p)
        \/ check_duplicate_request_number_call(p, Numbers)
        \/ check_duplicate_request_number_query(p, TRUE)
        \/ Finally(p)
        \/ Exit(p)
    \/ \E id \in Ids : SoftDelete(id)

SpecUnique == Init /\ [][NextUnique]_vars

\* update_request_status with valid and invalid statuses, on saved requests
NextUpdate ==
    \E p \in Callers :
        \/ save_request_call(p, RequestDicts({1001}, {"absent"}), {<<>>})
        \/ save_request_insert(p)
        \/ save_request_commit(p)
        \/ update_request_status_call(p, UpdateStatusInputs)
        \/ update_request_status_execute(p)
        \/ update_request_status_commit(p)
        \/ Finally(p)
        \/ Exit(p)

SpecUpdate == Init /\ [][NextUpdate]_vars

\* the operations that write and count statuses
NextStatus ==
    \/ \E p \in Callers :
        \/ save_request_call(p, RequestDicts({1001}, SaveStatusInputs), {<<>>})
        \/ save_request_insert(p)
        \/ save_request_commit(p)
        \/ update_request_status_call(p, UpdateStatusInputs)
        \/ update_request_status_execute(p)
        \/ update_request_status_commit(p)
        \/ get_statistics_call(p)
        \/ get_statistics_query(p)
        \/ Finally(p)
        \/ Exit(p)
    \/ \E id \in Ids : SoftDelete(id)

SpecStatus == Init /\ [][NextStatus]_vars

\* The callers' protocol: check_duplicate_request_number(n) first, and
\* save_request of a request numbered n only when it reported no conflict;
\* the check's SELECT does not fail here, so "no conflict" is what it found.
\* The check's finally clause runs and the caller keeps its answer.
checked_finally(p) ==
    /\ pc[p] = "finally"
    /\ op[p] = "check_duplicate_request_number"
    /\ return_connection(conn[p])
    /\ conn' = [conn EXCEPT ![p] = NoConn]
    /\ pc' = [pc EXCEPT ![p] = "checked"]
    /\ UNCHANGED <<poolvars, dbvars, op, arg, loc, ret, obs>>

\* no conflict reported: the caller calls save_request with that number
checked_save(p) ==
    /\ pc[p] = "checked"
    /\ IF ret[p].ok
       THEN Forget(p) /\ UNCHANGED <<conn, used, txn>>
       ELSE /\ op' = [op EXCEPT ![p] = "save_request"]
            /\ arg' = [arg EXCEPT ![p].request_data =
                        [complete |-> TRUE, request_number |-> arg[p].request_number,
                         status |-> "absent"]]
            /\ loc' = [loc EXCEPT ![p] = NoLoc]
            /\ Guarded(p, "save_insert", Result(FALSE, NoId, "not_connected"),
                       Result(FALSE, NoId, "no_connection"))
    /\ UNCHANGED <<poolvars, dbvars>>

NextChecked ==
    \E p \in Callers :
        \/ check_duplicate_request_number_call(p, Numbers)
        \/ check_duplicate_request_number_query(p, FALSE)
        \/ checked_finally(p)
        \/ checked_save(p)
        \/ save_request_insert(p)
        \/ save_request_commit(p)
        \/ Finally(p)
        \/ Exit(p)

SpecChecked == Init /\ [][NextChecked]_vars

\* every operation, on requests without items and with one request_number
NextPool ==
    \/ \E p \in Callers :
        \/ save_request_call(p, RequestDicts({1001}, {"absent"}), {<<>>, BadItems(MaxItems)})
        \/ save_request_insert(p)
        \/ save_request_items(p)
        \/ save_request_commit(p)
        \/ delete_request_call(p)
        \/ delete_request_execute(p)
        \/ delete_request_commit(p)
        \/ update_request_status_call(p, UpdateStatusInputs)
        \/ update_request_status_execute(p)
        \/ update_request_status_commit(p)
        \/ restore_request_call(p)
        \/ restore_request_execute(p)
        \/ restore_request_commit(p)
        \/ check_duplicate_request_number_call(p, {1001})
        \/ check_duplicate_request_number_query(p, TRUE)
        \/ get_statistics_call(p)
        \/ get_statistics_query(p)
        \/ test_connection_call(p)
        \/ test_connection_query(p)
        \/ search_in_items_call(p)
        \/ search_in_items_query(p)
        \/ search_in_items_return(p)
        \/ search_in_items_except(p)
        \/ read_call(p)
        \/ read_query(p)
        \/ Finally(p)
        \/ Exit(p)
    \/ \E id \in Ids : SoftDelete(id)

SpecPool == Init /\ [][NextPool]_vars


\* ------------------------------------------------------------------ claims
\* the row numbers of the committed items of request id
ItemsOf(id) == {it.row_number : it \in {x \in request_items : x.request_id = id}}

\* C1: save_request is atomic.  In every state (so also while a call is in
\* progress, and after it returned or raised) the committed tables hold, for
\* each request, either the row together with every item it was saved with,
\* or neither the row nor any item of it.
SaveRequestAtomic ==
    /\ \A id \in DOMAIN purchase_requests :
          ItemsOf(id) = 1..purchase_requests[id].saved_items
    /\ \A it \in request_items : it.request_id \in DOMAIN purchase_requests
    /\ \A p \in Callers :
          (/\ op[p] = "save_request"
           /\ pc[p] = "finally"
           /\ ~ret[p].ok
           /\ loc[p].request_id # NoId)
          => /\ loc[p].request_id \notin DOMAIN purchase_requests
             /\ ItemsOf(loc[p].request_id) = {}

\* C1 witness: the item insertion of a save failed after its request
\* insertion had succeeded, while another request with items is persisted
ItemInsertFailedAfterRequest ==
    \E p \in Callers :
        /\ op[p] = "save_request"
        /\ pc[p] = "finally"
        /\ ret[p].msg = "db_error"
        /\ loc[p].request_id # NoId
        /\ arg[p].items_data # <<>>
        /\ \E id \in DOMAIN purchase_requests : purchase_requests[id].saved_items > 0

\* C5: save_request never raises: it returns (true, id, null) on success and
\* (false, null, message) with a non-empty message on every failure.
SaveRequestNeverRaises ==
    \A p \in Callers :
        (op[p] = "save_request" /\ pc[p] \in {"finally", "return"})
        => /\ ret[p].raised = ""
           /\ ret[p].ok => ret[p].id # NoId /\ ret[p].msg = "None"
           /\ ~ret[p].ok => ret[p].id = NoId /\ ret[p].msg \notin {"", "None"}


\* C2: at most one active row (deleted_at unset) holds any request_number.
AtMostOneActivePerNumber ==
    \A n \in Numbers : Cardinality(ActiveWithNumber(n)) <= 1

\* C3 as claimed: restore_request(id) after delete_request(id) succeeds (a
\* storage error aside).
RestoreAfterDeleteSucceeds ==
    \A p \in Callers :
        (/\ op[p] = "restore_request"
         /\ pc[p] = "finally"
         /\ arg[p].request_id \in deleted_ids)
        => ret[p].ok \/ ret[p].msg = "db_error"

\* C3 as amended: delete_request removes the row for good, so a
\* restore_request(id) that follows a successful delete_request(id) returns
\* failure, the row is not active again (it does not exist), and
\* check_duplicate_request_number never returns that request.
RestoreAfterDeleteFails ==
    /\ [](deleted_ids \cap DOMAIN purchase_requests = {})
    /\ [][\A p \in Callers :
            /\ (/\ pc[p] = "restore_execute"
                /\ arg[p].request_id \in deleted_ids
                /\ pc'[p] # pc[p])
               => pc'[p] = "finally" /\ ~ret'[p].ok
            /\ (pc[p] = "check_query" /\ pc'[p] # pc[p])
               => ret'[p].id \notin deleted_ids]_vars

\* C3 witness: a restore_request of a request delete_request had deleted
\* found no row
RestoreOfDeletedNotFound ==
    \E p \in Callers :
        /\ op[p] = "restore_request"
        /\ pc[p] = "finally"
        /\ arg[p].request_id \in deleted_ids
        /\ ret[p] = Result(FALSE, NoId, "not_found")

\* C10: restore_request(id) clears deleted_at and returns success only when
\* the row exists and is soft-deleted; on an active or missing row it returns
\* failure and changes no row (so a restore right after a successful one fails).
RestoreOnlySoftDeleted ==
    [][\A p \in Callers :
        LET id == arg[p].request_id IN
        /\ (pc[p] = "restore_execute" /\ pc'[p] # pc[p])
           => /\ UNCHANGED <<purchase_requests, request_items>>
              /\ (id \notin DOMAIN purchase_requests
                    \/ purchase_requests[id].deleted_at = "NULL")
                 => pc'[p] = "finally" /\ ~ret'[p].ok
        /\ (op[p] = "restore_request" /\ pc[p] # "finally" /\ pc'[p] = "finally")
           => IF ret'[p].ok
              THEN /\ id \in DOMAIN purchase_requests
                   /\ purchase_requests[id].deleted_at # "NULL"
                   /\ purchase_requests' =
                        [purchase_requests EXCEPT ![id].deleted_at = "NULL"]
                   /\ UNCHANGED request_items
              ELSE UNCHANGED <<purchase_requests, request_items>>]_vars

\* C10 witness: a restore_request succeeded and a second one on the same,
\* now active, row is about to run
SecondRestoreAfterSuccess ==
    \E p, q \in Callers :
        /\ op[p] = "restore_request" /\ pc[p] = "finally" /\ ret[p].ok
        /\ op[q] = "restore_request" /\ pc[q] = "restore_execute"
        /\ arg[q].request_id = arg[p].request_id
        /\ arg[q].request_id \in DOMAIN purchase_requests
        /\ purchase_requests[arg[q].request_id].deleted_at = "NULL"


\* C4: every result of get_statistics has
\* total = pending + approved + rejected + completed.
StatisticsTotalIsSum ==
    \A p \in Callers :
        (op[p] = "get_statistics" /\ pc[p] \in {"finally", "return"})
        => LET st == loc[p].stats
           IN  st.total = st.pending + st.approved + st.rejected + st.completed

\* C7: update_request_status(id, s) with s outside valid_statuses returns the
\* validation failure without acquiring a connection and changes no row,
\* whatever the id and whether or not the store is connected.
UpdateRejectsInvalidStatus ==
    /\ [](\A p \in Callers :
            (op[p] = "update_request_status" /\ arg[p].new_status \notin valid_statuses)
            => /\ pc[p] = "return"
               /\ ret[p] = Result(FALSE, NoId, "invalid_status")
               /\ conn[p] = NoConn
               /\ ~obs[p].getconn)
    /\ [][\A p \in Callers :
            (/\ op'[p] = "update_request_status"
             /\ op[p] # op'[p]
             /\ arg'[p].new_status \notin valid_statuses)
            => UNCHANGED <<purchase_requests, request_items, used, txn>>]_vars

\* C7 witness: an invalid status was rejected for the id of an existing row
InvalidStatusRejected ==
    \E p \in Callers :
        /\ op[p] = "update_request_status"
        /\ pc[p] = "return"
        /\ arg[p].new_status = "archived"
        /\ arg[p].request_id \in DOMAIN purchase_requests
        /\ ret[p].msg = "invalid_status"


\* C6: when every caller checks before it saves, and saves only after the
\* check reported no conflict, no two active rows hold the same
\* request_number, whatever the interleaving.
CheckedSavesKeepNumbersUnique ==
    \A i, j \in DOMAIN purchase_requests :
        (/\ i # j
         /\ purchase_requests[i].deleted_at = "NULL"
         /\ purchase_requests[j].deleted_at = "NULL")
        => purchase_requests[i].request_number # purchase_requests[j].request_number


\* the callers that hold a connection
Holders == {p \in Callers : conn[p] # NoConn}

\* C8: an operation that acquired a connection has returned it when it is
\* over, whatever the exit path; no connection is held by two operations at
\* once; the checked-out connections are exactly those of the operations in
\* flight, so none is checked out once all of them have finished.
ConnectionsReturned ==
    /\ \A p, q \in Holders : p # q => conn[p] # conn[q]
    /\ used = {conn[p] : p \in Holders}
    /\ \A p \in Callers : pc[p] \in {"idle", "return"} => conn[p] = NoConn
    /\ (\A p \in Callers : pc[p] = "idle") => used = {}

\* C8 witness: two operations in flight, one leaving save_request by an
\* uncaught KeyError, the other in the except clause of search_in_items
TwoExitsInFlight ==
    \E p, q \in Callers :
        /\ pc[p] = "finally" /\ ret[p].raised = "KeyError" /\ conn[p] # NoConn
        /\ pc[q] = "search_except" /\ conn[q] # NoConn

\* C9: when construction failed to connect, every operation called with valid
\* arguments short-circuits: it returns its not-connected failure or its
\* empty result, and does not ask the pool for a connection.
NotConnectedShortCircuits ==
    ~is_connected =>
        \A p \in Callers :
            (/\ pc[p] # "idle"
             /\ ~(op[p] = "update_request_status"
                    /\ arg[p].new_status \notin valid_statuses))
            => /\ pc[p] = "return"
               /\ ~obs[p].getconn
               /\ ret[p].msg \in {"not_connected", "None", "stats", "empty", "False"}


\* C11: no orphaned items.  In every state reachable by save_request and
\* delete_request calls, every committed item row's request_id is the id of a
\* committed request row: a delete_request that commits removes the request
\* together with all of its items (a state with the request gone and an item
\* of it left would break this), and save_request never commits an item
\* without its request.
NoOrphanItems ==
    \A it \in request_items : it.request_id \in DOMAIN purchase_requests

\* a request that save_request stored with items (the call's result is still
\* with its caller) has been deleted by a successful delete_request
DeletedRequestThatHadItems ==
    \E p, q \in Callers :
        /\ op[p] = "save_request" /\ pc[p] = "finally" /\ ret[p].ok
        /\ arg[p].items_data # <<>>
        /\ op[q] = "delete_request" /\ pc[q] = "finally" /\ ret[q].ok
        /\ arg[q].request_id = ret[p].id
        /\ ret[p].id \in deleted_ids
        /\ ret[p].id \notin DOMAIN purchase_requests


\* C12: every stored status is valid.  In every reachable state the status
\* of every committed request row is one of pending, approved, rejected,
\* completed, whatever save_request and update_request_status calls were made
\* (a request_data without 'status' is stored as pending).
StoredStatusAlwaysValid ==
    \A id \in DOMAIN purchase_requests :
        purchase_requests[id].status \in valid_statuses


\* C13: an operation ends its own transaction before the hand-back.  Whenever
\* save_request, delete_request, restore_request or update_request_status is
\* about to return its connection to the pool (its try block is left, by a
\* return or by an exception), the operation has already committed or rolled
\* back on that connection: the connection's transaction is idle.
TransactionEndedBeforeHandBack ==
    \A p \in Callers :
        ( /\ pc[p] = "finally"
          /\ op[p] \in {"save_request", "delete_request", "restore_request",
                        "update_request_status"}
          /\ conn[p] # NoConn )
        => txn[conn[p]].status = "idle"

=============================================================================
